---- MODULE Spec2Model ----
(***************************************************************************)
(* Model of the ANT debug channel (examples/ant/experimental/ant_debug/    *)
(* debug.c): a registry of 16-bit debug fields keyed by one byte, a        *)
(* selective filter, the round-robin page builder and the filter command   *)
(* decoder.  All handlers run to completion on one thread, so each handler *)
(* is one action.                                                          *)
(***************************************************************************)
EXTENDS Integers, Sequences, FiniteSets, TLC

\* ---------------------------------------------------------------- constants
DEBUG_QUEUE_SIZE == 256
ANT_DEBUG_FIELD_INVALID == 255
ANT_DEBUG_PAGE_MESSAGE == 249
ANT_FAST_DEBUG_BYTE_INDEX == 1
ANT_DEBUG_FILTER_COMMAND == 3
ANT_DEBUG_SUB_COMMAND_FILTER_ADD == 1
ANT_DEBUG_SUB_COMMAND_FILTER_CLEAR == 2
ANT_RESERVED_BYTE == 255
ANT_PAGE_DEBUG_KEY0_INDEX == 2
ANT_PAGE_DEBUG_VALUE_SIZE == 3

\* width of uint8_t and uint16_t
U8 == 256
U16 == 65536

Slots == 0 .. (DEBUG_QUEUE_SIZE - 1)
Bytes == 0 .. (U8 - 1)

\* ------------------------------------------------------------------- bounds
\* an increment is only issued while the value read is below this (or is the
\* placeholder 0xFFFF), which keeps the 16-bit counters in a small range
MaxCount == 1
\* a transmit event is only delivered while the cursor is below this, which
\* keeps the cursor of a nearly full registry in a small range
MaxCursor == 4
\* number of fields already registered at the start of the nearly-full
\* specification (keys 0 .. PreFill-1 in slots 0 .. PreFill-1)
PreFill == 254

\* keys used by the callers in the specification that starts empty
Keys == {0, 1}
\* keys used in the nearly-full specification: the keys still unregistered,
\* the reserved key 255 among them
KeysFull == PreFill .. ANT_DEBUG_FIELD_INVALID
\* value passed to set by the application
Values == {0}
FastBytes == {7}

\* marks a key no ad_set_debug_field call has named since init
NoValue == 0 - 1

VARIABLES
    m_debug_queue,                  \* debug.c:58
    m_hash_lookup,                  \* debug.c:59
    m_queue_size,                   \* debug.c:60
    m_current_index_debug_channel,  \* debug.c:61
    m_head,                         \* debug.c:62
    m_selective_debug,              \* debug.c:63
    m_tx_buffer,                    \* debug.c:64
    m_fast_debug_byte,              \* debug.c:65
    hung,           \* TRUE when ad_get_debug_page never leaves its while loop
    last_set,       \* history: key -> value of the latest ad_set_debug_field call since init
    added,          \* history: keys named by filter-add commands since the last clear/init
    fresh           \* history: the filter-add that switched the filter on named only unset keys

vars == << m_debug_queue, m_hash_lookup, m_queue_size,
           m_current_index_debug_channel, m_head, m_selective_debug,
           m_tx_buffer, m_fast_debug_byte, hung,
           last_set, added, fresh >>

\* the registry part of the state, as one value handed to the helpers
Reg == [queue |-> m_debug_queue, lookup |-> m_hash_lookup,
        head |-> m_head, size |-> m_queue_size]

\* ------------------------------------------------------------------ helpers

\* debug.c:78-88
ad_output_debug_mesg(current_index) ==
    IF m_selective_debug
    THEN m_debug_queue[current_index].output
    ELSE TRUE

\* LoopStep with the cursor wrapped one slot too late (> for >= at debug.c:120)
LoopStep_LateWrap(s) ==
    LET index == ANT_PAGE_DEBUG_KEY0_INDEX + (s.count * ANT_PAGE_DEBUG_VALUE_SIZE)
        out   == ad_output_debug_mesg(s.cur)
        nx    == (s.cur + 1) % U8
    IN  [data  |-> IF out
                   THEN [s.data EXCEPT
                           ![index]     = m_debug_queue[s.cur].index,
                           ![index + 1] = m_debug_queue[s.cur].value % U8,
                           ![index + 2] = (m_debug_queue[s.cur].value \div U8) % U8]
                   ELSE s.data,
         cur   |-> IF nx > m_queue_size THEN 0 ELSE nx,
         count |-> IF out THEN s.count + 1 ELSE s.count,
         examined |-> s.examined + 1]

\* One iteration of the while loop of ad_get_debug_page (debug.c:110-123) on
\* the loop state s = [data, cur, count, examined].
LoopStep(s) ==
    LET index == ANT_PAGE_DEBUG_KEY0_INDEX + (s.count * ANT_PAGE_DEBUG_VALUE_SIZE)
        out   == ad_output_debug_mesg(s.cur)
        nx    == (s.cur + 1) % U8
    IN  [data  |-> IF out
                   THEN [s.data EXCEPT
                           ![index]     = m_debug_queue[s.cur].index,
                           ![index + 1] = m_debug_queue[s.cur].value % U8,
                           ![index + 2] = (m_debug_queue[s.cur].value \div U8) % U8]
                   ELSE s.data,
         cur   |-> IF nx >= m_queue_size THEN 0 ELSE nx,
         count |-> IF out THEN s.count + 1 ELSE s.count,
         examined |-> s.examined + 1]

\* The loop condition count < 2 (debug.c:108).  A cursor at or beyond
\* m_queue_size returns to 0 after one iteration and the cursor then cycles
\* over 0 .. m_queue_size-1, so a run that ends does so within
\* 1 + 2 * m_queue_size iterations; a run still going after LoopFuel
\* iterations never ends.  The iterations are taken in blocks of LoopBlock.
LoopBlock == DEBUG_QUEUE_SIZE \div 8
LoopFuel == 3 * DEBUG_QUEUE_SIZE

RECURSIVE LoopSteps(_, _)
LoopSteps(s, k) ==
    IF s.count >= 2 \/ k = 0 THEN s ELSE LoopSteps(LoopStep(s), k - 1)

RECURSIVE LoopBlocks(_, _)
LoopBlocks(s, b) ==
    IF s.count >= 2 \/ b = 0 THEN s ELSE LoopBlocks(LoopSteps(s, LoopBlock), b - 1)

DebugPageLoop(p_data, cur) ==
    LET s == LoopBlocks([data |-> p_data, cur |-> cur, count |-> 0, examined |-> 0],
                        LoopFuel \div LoopBlock)
    IN  [data |-> s.data, cur |-> s.cur, examined |-> s.examined,
         hung |-> s.count < 2]

\* ad_get_debug_page with the empty-registry fill starting one byte late
ad_get_debug_page_ShortFill(p_data, p_current_index) ==
    LET d0 == [p_data EXCEPT ![0] = ANT_DEBUG_PAGE_MESSAGE,
                             ![ANT_FAST_DEBUG_BYTE_INDEX] = m_fast_debug_byte]
    IN  IF m_queue_size > 0
        THEN DebugPageLoop(d0, p_current_index)
        ELSE [data |-> [i \in 0 .. 7 |-> IF i > ANT_PAGE_DEBUG_KEY0_INDEX
                                         THEN ANT_RESERVED_BYTE ELSE d0[i]],
              cur |-> p_current_index, examined |-> 0, hung |-> FALSE]

\* debug.c:96-130
ad_get_debug_page(p_data, p_current_index) ==
    LET d0 == [p_data EXCEPT ![0] = ANT_DEBUG_PAGE_MESSAGE,
                             ![ANT_FAST_DEBUG_BYTE_INDEX] = m_fast_debug_byte]
    IN  IF m_queue_size > 0
        THEN DebugPageLoop(d0, p_current_index)
        ELSE [data |-> [i \in 0 .. 7 |-> IF i >= ANT_PAGE_DEBUG_KEY0_INDEX
                                         THEN ANT_RESERVED_BYTE ELSE d0[i]],
              cur |-> p_current_index, examined |-> 0, hung |-> FALSE]

\* ad_set_debug_field without the lookup entry of a new key (debug.c:261 left out)
ad_set_debug_field_NoLookup(R, index, field_value) ==
    LET i == IF R.lookup[index] # ANT_DEBUG_FIELD_INVALID
             THEN R.lookup[index] ELSE R.head
        R1 == IF R.lookup[index] # ANT_DEBUG_FIELD_INVALID
              THEN R
              ELSE [R EXCEPT !.queue[R.head].index = index,
                             !.head = (R.head + 1) % U8,
                             !.size = (R.size + 1) % U8]
    IN  [R1 EXCEPT !.queue[i].value = field_value]

\* debug.c:250-269
ad_set_debug_field(R, index, field_value) ==
    LET i == IF R.lookup[index] # ANT_DEBUG_FIELD_INVALID
             THEN R.lookup[index] ELSE R.head
        R1 == IF R.lookup[index] # ANT_DEBUG_FIELD_INVALID
              THEN R
              ELSE [R EXCEPT !.lookup[index] = R.head,
                             !.queue[R.head].index = index,
                             !.head = (R.head + 1) % U8,
                             !.size = (R.size + 1) % U8]
    IN  [R1 EXCEPT !.queue[i].value = field_value]

\* debug.c:272-282
ad_get_debug_field(R, index) ==
    LET value == R.queue[R.lookup[index]]
    IN  IF value.index # ANT_DEBUG_FIELD_INVALID
        THEN [ret |-> TRUE, written |-> TRUE, value |-> value.value]
        ELSE [ret |-> FALSE, written |-> FALSE, value |-> 0]

\* debug.c:285-293
ad_increment_debug_field(R, index) ==
    LET g == ad_get_debug_field(R, index)
    IN  IF g.ret
        THEN ad_set_debug_field(R, index, (g.value + 1) % U16)
        ELSE R

\* The for loop of the filter-add branch (debug.c:169-185), from payload
\* position index to 7.  H is the history of set calls, carried along.
RECURSIVE FilterAddLoop(_, _, _, _)
FilterAddLoop(R, H, payload, index) ==
    IF index >= 8
    THEN [reg |-> R, hist |-> H]
    ELSE IF payload[index] # ANT_DEBUG_FIELD_INVALID
    THEN LET k    == payload[index]
             miss == R.lookup[k] = ANT_DEBUG_FIELD_INVALID
             R1   == IF miss THEN ad_set_debug_field(R, k, 65535) ELSE R
             H1   == IF miss THEN [H EXCEPT ![k] = 65535] ELSE H
             key  == R1.lookup[k]
             R2   == [R1 EXCEPT !.queue[key].output = TRUE]
         IN  FilterAddLoop(R2, H1, payload, index + 1)
    ELSE FilterAddLoop(R, H, payload, index + 1)

\* ------------------------------------------------------------------ history

EmptyHistory == [k \in Bytes |-> NoValue]

\* the keys of the two pairs of a page
PageKeys(p_data) == {p_data[2], p_data[5]}

\* the keys a filter-add command names: its key bytes other than the skip byte
NamedKeys(payload) == {payload[i] : i \in 3 .. 7} \ {ANT_DEBUG_FIELD_INVALID}

\* ------------------------------------------------------------------ initial

\* static storage is zero-initialised; ad_init (debug.c:206-221) has run once
Init ==
    /\ m_debug_queue = [i \in Slots |-> [index |-> 0, value |-> 0, output |-> FALSE]]
    /\ m_hash_lookup = [i \in Slots |-> ANT_DEBUG_FIELD_INVALID]
    /\ m_queue_size = 0
    /\ m_current_index_debug_channel = 0
    /\ m_head = 0
    /\ m_selective_debug = FALSE
    /\ m_tx_buffer = [i \in 0 .. 7 |-> 0]
    /\ m_fast_debug_byte = 255
    /\ hung = FALSE
    /\ last_set = EmptyHistory
    /\ added = {}
    /\ fresh = FALSE

\* the state after ad_init and ad_set_debug_field(k, 0) for k = 0 .. PreFill-1
InitFull ==
    /\ m_debug_queue = [i \in Slots |->
                          [index |-> IF i < PreFill THEN i ELSE 0,
                           value |-> 0, output |-> FALSE]]
    /\ m_hash_lookup = [k \in Slots |->
                          IF k < PreFill THEN k ELSE ANT_DEBUG_FIELD_INVALID]
    /\ m_queue_size = PreFill
    /\ m_current_index_debug_channel = 0
    /\ m_head = PreFill
    /\ m_selective_debug = FALSE
    /\ m_tx_buffer = [i \in 0 .. 7 |-> 0]
    /\ m_fast_debug_byte = 255
    /\ hung = FALSE
    /\ last_set = [k \in Bytes |-> IF k < PreFill THEN 0 ELSE NoValue]
    /\ added = {}
    /\ fresh = FALSE

\* ------------------------------------------------------------------ actions

SetReg(R) ==
    /\ m_debug_queue' = R.queue
    /\ m_hash_lookup' = R.lookup
    /\ m_head' = R.head
    /\ m_queue_size' = R.size

\* ad_init called again (debug.c:206-221): the output flags are not touched
ad_init ==
    /\ ~hung
    /\ m_queue_size' = 0
    /\ m_current_index_debug_channel' = 0
    /\ m_head' = 0
    /\ m_selective_debug' = FALSE
    /\ m_fast_debug_byte' = 255
    /\ m_debug_queue' = [i \in Slots |->
                           [index |-> 0, value |-> 0,
                            output |-> m_debug_queue[i].output]]
    /\ m_hash_lookup' = [i \in Slots |-> ANT_DEBUG_FIELD_INVALID]
    /\ last_set' = EmptyHistory
    /\ added' = {}
    /\ fresh' = FALSE
    /\ UNCHANGED << m_tx_buffer, hung >>

\* the application calls ad_set_debug_field(index, field_value)
SetField(index, field_value) ==
    /\ ~hung
    /\ SetReg(ad_set_debug_field(Reg, index, field_value))
    /\ last_set' = [last_set EXCEPT ![index] = field_value]
    /\ UNCHANGED << m_current_index_debug_channel, m_selective_debug,
                    m_tx_buffer, m_fast_debug_byte, hung, added, fresh >>

\* the application calls ad_increment_debug_field(index)
IncrementField(index) ==
    /\ ~hung
    /\ LET g == ad_get_debug_field(Reg, index)
       IN  /\ g.ret => (g.value < MaxCount \/ g.value = U16 - 1)
           /\ SetReg(ad_increment_debug_field(Reg, index))
           /\ last_set' = IF g.ret
                          THEN [last_set EXCEPT ![index] = (g.value + 1) % U16]
                          ELSE last_set
    /\ UNCHANGED << m_current_index_debug_channel, m_selective_debug,
                    m_tx_buffer, m_fast_debug_byte, hung, added, fresh >>

\* debug.c:296-299
ad_set_fast_debug_byte(fdb_value) ==
    /\ ~hung
    /\ m_fast_debug_byte' = fdb_value
    /\ UNCHANGED << m_debug_queue, m_hash_lookup, m_queue_size,
                    m_current_index_debug_channel, m_head, m_selective_debug,
                    m_tx_buffer, hung, last_set, added,
                    fresh >>

\* debug.c:136-140, reached from EVENT_TX, EVENT_TRANSFER_TX_FAILED and
\* EVENT_CHANNEL_COLLISION (debug.c:320-324)
ad_update_tx ==
    /\ ~hung
    /\ m_current_index_debug_channel < MaxCursor
    /\ LET r == ad_get_debug_page(m_tx_buffer, m_current_index_debug_channel)
       IN  /\ m_tx_buffer' = r.data
           /\ m_current_index_debug_channel' = r.cur
           /\ hung' = r.hung
    /\ UNCHANGED << m_debug_queue, m_hash_lookup, m_queue_size, m_head,
                    m_selective_debug, m_fast_debug_byte,
                    last_set, added, fresh >>

\* ad_decode_debug_command with every sub-command other than add taken as the
\* clear sub-command
ad_decode_debug_command_AnyClear(payload) ==
    /\ ~hung
    /\ IF payload[1] = ANT_DEBUG_FILTER_COMMAND
          /\ payload[2] = ANT_DEBUG_SUB_COMMAND_FILTER_ADD
       THEN LET r == FilterAddLoop(Reg, last_set, payload, 3)
            IN  /\ m_selective_debug' = TRUE
                /\ SetReg(r.reg)
                /\ last_set' = r.hist
                /\ added' = added \cup NamedKeys(payload)
                /\ fresh' = IF m_selective_debug
                             THEN fresh
                             ELSE /\ NamedKeys(payload) # {}
                                  /\ \A k \in NamedKeys(payload) : last_set[k] = NoValue
       ELSE IF payload[1] = ANT_DEBUG_FILTER_COMMAND
       THEN /\ m_selective_debug' = FALSE
            /\ m_debug_queue' = [i \in Slots |->
                                   IF i < m_queue_size
                                   THEN [m_debug_queue[i] EXCEPT !.output = FALSE]
                                   ELSE m_debug_queue[i]]
            /\ added' = {}
            /\ fresh' = FALSE
            /\ UNCHANGED << m_hash_lookup, m_head, m_queue_size, last_set >>
       ELSE UNCHANGED << m_selective_debug, m_debug_queue, m_hash_lookup,
                         m_head, m_queue_size, last_set, added, fresh >>
    /\ UNCHANGED << m_current_index_debug_channel, m_tx_buffer,
                    m_fast_debug_byte, hung >>

\* debug.c:156-203, reached from EVENT_RX with page byte 0xF9 (debug.c:326-331)
ad_decode_debug_command(payload) ==
    /\ ~hung
    /\ IF payload[1] = ANT_DEBUG_FILTER_COMMAND
          /\ payload[2] = ANT_DEBUG_SUB_COMMAND_FILTER_ADD
       THEN LET r == FilterAddLoop(Reg, last_set, payload, 3)
            IN  /\ m_selective_debug' = TRUE
                /\ SetReg(r.reg)
                /\ last_set' = r.hist
                /\ added' = added \cup NamedKeys(payload)
                /\ fresh' = IF m_selective_debug
                             THEN fresh
                             ELSE /\ NamedKeys(payload) # {}
                                  /\ \A k \in NamedKeys(payload) : last_set[k] = NoValue
       ELSE IF payload[1] = ANT_DEBUG_FILTER_COMMAND
               /\ payload[2] = ANT_DEBUG_SUB_COMMAND_FILTER_CLEAR
       THEN /\ m_selective_debug' = FALSE
            /\ m_debug_queue' = [i \in Slots |->
                                   IF i < m_queue_size
                                   THEN [m_debug_queue[i] EXCEPT !.output = FALSE]
                                   ELSE m_debug_queue[i]]
            /\ added' = {}
            /\ fresh' = FALSE
            /\ UNCHANGED << m_hash_lookup, m_head, m_queue_size, last_set >>
       ELSE UNCHANGED << m_selective_debug, m_debug_queue, m_hash_lookup,
                         m_head, m_queue_size, last_set, added, fresh >>
    /\ UNCHANGED << m_current_index_debug_channel, m_tx_buffer,
                    m_fast_debug_byte, hung >>

\* ------------------------------------------------------------ specification

\* received control messages: [F9][command][sub-command][five key bytes];
\* the first and the last key byte vary, the others are the skip byte 255
Payload(c, sub, k1, k5) ==
    [i \in 0 .. 7 |->
        CASE i = 0 -> ANT_DEBUG_PAGE_MESSAGE
          [] i = 1 -> c
          [] i = 2 -> sub
          [] i = 3 -> k1
          [] i = 7 -> k5
          [] OTHER -> ANT_DEBUG_FIELD_INVALID]

\* command and sub-command bytes the decoder does not recognise: the filter
\* command with sub-command 0, and command 0 with either filter sub-command
UnknownCodes ==
    { << ANT_DEBUG_FILTER_COMMAND, 0 >>,
      << 0, ANT_DEBUG_SUB_COMMAND_FILTER_ADD >>,
      << 0, ANT_DEBUG_SUB_COMMAND_FILTER_CLEAR >> }

Payloads(K) ==
    { Payload(ANT_DEBUG_FILTER_COMMAND, ANT_DEBUG_SUB_COMMAND_FILTER_ADD, k1, k5) :
        k1 \in K \cup {ANT_DEBUG_FIELD_INVALID},
        k5 \in K \cup {ANT_DEBUG_FIELD_INVALID} }
    \cup { Payload(ANT_DEBUG_FILTER_COMMAND, ANT_DEBUG_SUB_COMMAND_FILTER_CLEAR, 0, 0) }
    \cup { Payload(c[1], c[2], k, k) : c \in UnknownCodes, k \in K }

NextK(K) ==
    \/ ad_init
    \/ \E k \in K, v \in Values : SetField(k, v)
    \/ \E k \in K : IncrementField(k)
    \/ \E b \in FastBytes : ad_set_fast_debug_byte(b)
    \/ ad_update_tx
    \/ \E p \in Payloads(K) : ad_decode_debug_command(p)

Next == NextK(Keys)
NextFull == NextK(KeysFull)

\* the nearly full registry with callers that never use the reserved key
NextOrdinary == NextK(KeysFull \ {ANT_DEBUG_FIELD_INVALID})

Spec == Init /\ [][Next]_vars
SpecFull == InitFull /\ [][NextFull]_vars
SpecOrdinary == InitFull /\ [][NextOrdinary]_vars

TypeOK ==
    /\ m_queue_size \in Bytes
    /\ m_head \in Bytes
    /\ m_current_index_debug_channel \in Bytes
    /\ \A i \in Slots : m_hash_lookup[i] \in Bytes

\* ------------------------------------------------------------------- claims

AllKeys == Keys \cup KeysFull \cup {ANT_DEBUG_FIELD_INVALID}

\* a key some ad_set_debug_field call has named since the last init
Registered(k) == last_set[k] # NoValue

\* the occupied slots a page build may emit
Eligible == {i \in Slots : i < m_queue_size /\ ad_output_debug_mesg(i)}

\* the three bytes of pair n (0 or 1) of a page, of the field in slot i, and
\* of an unused pair position
Pair(p_data, n) == << p_data[2 + 3 * n], p_data[3 + 3 * n], p_data[4 + 3 * n] >>
FieldPair(i) == << m_debug_queue[i].index, m_debug_queue[i].value % U8,
                   (m_debug_queue[i].value \div U8) % U8 >>
FillPair == << ANT_RESERVED_BYTE, ANT_RESERVED_BYTE, ANT_RESERVED_BYTE >>

\* C1: every page build terminates (within m_queue_size examined slots), also
\* when the filter is on and fewer than two occupied slots are included: no
\* transmit event leaves the program inside the while loop.
C1_PageBuildTerminates == ~hung

\* C2: in every reachable state, get on a key that no set call has named
\* since the last init reports absent and writes no value.
C2_UnregisteredGetAbsent ==
    \A k \in Bytes :
        ~Registered(k) =>
            /\ ~ad_get_debug_field(Reg, k).ret
            /\ ~ad_get_debug_field(Reg, k).written

\* C3: increment on a key that is not registered changes nothing: size, head,
\* lookup table, slots, cursor and filter mode stay as they are.
C3_IncrementAbsentNoOp ==
    [][\A k \in AllKeys :
         (~Registered(k) /\ IncrementField(k)) =>
            UNCHANGED << m_debug_queue, m_hash_lookup, m_queue_size, m_head,
                         m_current_index_debug_channel, m_selective_debug >>]_vars

\* C4: up to the capacity of DEBUG_QUEUE_SIZE distinct keys every set
\* succeeds: the size counts the distinct keys set since init and each of them
\* is found in a slot of its own through the lookup table.
C4_CapacityBoundary ==
    LET reg == {k \in Bytes : Registered(k)}
    IN  Cardinality(reg) <= DEBUG_QUEUE_SIZE =>
            /\ m_queue_size = Cardinality(reg)
            /\ \A k \in reg :
                  /\ m_hash_lookup[k] # ANT_DEBUG_FIELD_INVALID
                  /\ m_debug_queue[m_hash_lookup[k]].index = k

\* C5: after a filter-add command that names only previously unset keys,
\* every page built until the next filter-clear holds only keys named by
\* filter-add commands since then.
C5_FilterIsolation ==
    [][(ad_update_tx /\ m_selective_debug /\ fresh /\ ~hung') =>
          PageKeys(m_tx_buffer') \subseteq added]_vars

\* C6: a page built while the registry is not empty and fewer than two slots
\* are eligible holds each eligible field once and the reserved fill byte
\* 0xFF in every other pair position.
C6_PadShortPage ==
    [][(ad_update_tx /\ m_queue_size > 0 /\ Cardinality(Eligible) < 2) =>
          /\ ~hung'
          /\ \/ Eligible = {}
                /\ Pair(m_tx_buffer', 0) = FillPair
                /\ Pair(m_tx_buffer', 1) = FillPair
             \/ \E i \in Eligible :
                   \/ /\ Pair(m_tx_buffer', 0) = FieldPair(i)
                      /\ Pair(m_tx_buffer', 1) = FillPair
                   \/ /\ Pair(m_tx_buffer', 0) = FillPair
                      /\ Pair(m_tx_buffer', 1) = FieldPair(i)]_vars

\* the keys held by the occupied slots
SlotKeys == {m_debug_queue[i].index : i \in 0 .. (m_queue_size - 1)}

\* a step made of set calls on registered keys only: set or increment on a
\* registered key, or a filter-add command naming registered keys only
ReSetStep ==
    \/ \E k \in AllKeys, v \in Values : Registered(k) /\ SetField(k, v)
    \/ \E k \in AllKeys : Registered(k) /\ IncrementField(k)
    \/ \E p \in Payloads(AllKeys) :
          /\ p[2] = ANT_DEBUG_SUB_COMMAND_FILTER_ADD
          /\ \A k \in NamedKeys(p) : Registered(k)
          /\ ad_decode_debug_command(p)

\* C7 (state part): the occupied slots hold pairwise distinct keys, and these
\* are exactly the keys set since init.
C7_OneSlotPerKey ==
    /\ Cardinality(SlotKeys) = m_queue_size
    /\ SlotKeys = {k \in Bytes : Registered(k)}

\* C7 (step part): set calls on registered keys leave the size, the head, the
\* lookup table and the key of every slot as they are.
C7_ReSetKeepsSlots ==
    ReSetStep =>
        /\ m_queue_size' = m_queue_size
        /\ m_head' = m_head
        /\ m_hash_lookup' = m_hash_lookup
        /\ \A i \in Slots : m_debug_queue'[i].index = m_debug_queue[i].index

\* C7: with callers that use keys in 0..254 only, each distinct key occupies
\* exactly one slot and a set call on a registered key neither changes the
\* size nor allocates a slot, up to the last slot such keys can reach.
C7_Uniqueness == []C7_OneSlotPerKey /\ [][C7_ReSetKeepsSlots]_vars

\* C7 witness: key PreFill was auto-registered in slot PreFill (the last one
\* ordinary keys reach), a page showed its placeholder value, and a later set
\* call on the registered key replaced the value.
C7_Witness ==
    /\ m_queue_size = PreFill + 1
    /\ m_debug_queue[PreFill].index = PreFill
    /\ m_debug_queue[PreFill].value = 0
    /\ Pair(m_tx_buffer, 0) = << PreFill, 255, 255 >>

\* C8: the lookup table and the slot array agree: every occupied slot is
\* found through its key, and every lookup entry other than the sentinel
\* points at an occupied slot holding that key.
C8_LookupConsistent ==
    /\ \A i \in Slots :
          i < m_queue_size => m_hash_lookup[m_debug_queue[i].index] = i
    /\ \A k \in Bytes :
          m_hash_lookup[k] # ANT_DEBUG_FIELD_INVALID =>
              /\ m_hash_lookup[k] < m_queue_size
              /\ m_debug_queue[m_hash_lookup[k]].index = k

\* C9: for every key passed to set since init, get reports present and
\* returns the value of the latest set call for that key.
C9_GetLatestSet ==
    \A k \in Bytes :
        Registered(k) =>
            /\ ad_get_debug_field(Reg, k).ret
            /\ ad_get_debug_field(Reg, k).value = last_set[k]

\* n consecutive page builds from the run state a = [data, cur, seen, nodup]
\* with the registry and the filter as they are, taken in blocks.  The test
\* on a.cur never succeeds (the cursor is a byte); it makes the evaluator
\* compute each run state before it goes on to the next.
RunStep(a) ==
    LET r == ad_get_debug_page(a.data, a.cur)
    IN  [data |-> r.data, cur |-> r.cur,
         seen |-> a.seen \cup PageKeys(r.data),
         nodup |-> a.nodup /\ r.data[2] # r.data[5]]

RECURSIVE RunSteps(_, _)
RunSteps(a, n) ==
    IF n = 0 \/ a.cur >= U8 THEN a ELSE RunSteps(RunStep(a), n - 1)

RECURSIVE BuildRun(_, _)
BuildRun(a, n) ==
    IF n <= LoopBlock \/ a.cur >= U8
    THEN RunSteps(a, n)
    ELSE BuildRun(RunSteps(a, LoopBlock), n - LoopBlock)

\* C10: with the filter off and k >= 1 fields, k consecutive page builds from
\* the current cursor emit every field, and when k >= 2 no page holds the same
\* key in both pair positions.
C10_RoundRobinCoverage ==
    (~m_selective_debug /\ m_queue_size >= 1) =>
        LET a == BuildRun([data |-> m_tx_buffer,
                           cur |-> m_current_index_debug_channel,
                           seen |-> {}, nodup |-> TRUE], m_queue_size)
        IN  /\ SlotKeys \subseteq a.seen
            /\ m_queue_size >= 2 => a.nodup

\* C10 witness: two pages have been built from a registry of more than two
\* fields with the filter off.
C10_Witness ==
    /\ ~m_selective_debug
    /\ m_queue_size = PreFill + 1
    /\ m_current_index_debug_channel = 4
    /\ m_tx_buffer[2] = 2
    /\ m_tx_buffer[5] = 3

\* a set call (direct, or through increment) that allocates a slot: the head
\* it leaves differs from the head it found
AllocatingSetStep ==
    /\ \/ \E k \in AllKeys, v \in Values : SetField(k, v)
       \/ \E k \in AllKeys : IncrementField(k)
    /\ m_head' # m_head

\* C11: a slot newly allocated by set for a key not seen before is not
\* included at the moment of allocation, also when the allocation follows a
\* re-initialization that came after filter-add commands.
C11_NewSlotNotIncluded ==
    [][AllocatingSetStep => ~m_debug_queue'[m_head].output]_vars

\* the registry a filter-add command naming k1 and k5 leaves, from registry R
FilterAdd(R, k1, k5) ==
    FilterAddLoop(R, last_set,
                  Payload(ANT_DEBUG_FILTER_COMMAND,
                          ANT_DEBUG_SUB_COMMAND_FILTER_ADD, k1, k5), 3).reg

\* C12: filter-add is idempotent per key: naming a key twice in one command,
\* or once in each of two successive commands, leaves the same slots, lookup
\* table, head and size as naming it once.
C12_FilterAddIdempotent ==
    \A k \in AllKeys \ {ANT_DEBUG_FIELD_INVALID} :
        LET once == FilterAdd(Reg, k, ANT_DEBUG_FIELD_INVALID)
        IN  /\ FilterAdd(Reg, k, k) = once
            /\ FilterAdd(once, k, ANT_DEBUG_FIELD_INVALID) = once

\* C13 (state part): in every reachable state, increment on a registered key
\* adds one modulo 65536 to the value in the key's slot and leaves the size,
\* the head, the lookup table and everything else in the slots as they are.
C13_IncrementAddsOne ==
    \A k \in AllKeys :
        Registered(k) =>
            LET R2 == ad_increment_debug_field(Reg, k)
            IN  /\ \E i \in Slots : i < m_queue_size /\ m_debug_queue[i].index = k
                /\ R2.size = m_queue_size
                /\ R2.head = m_head
                /\ R2.lookup = m_hash_lookup
                /\ \A i \in Slots :
                      R2.queue[i] =
                          IF i < m_queue_size /\ m_debug_queue[i].index = k
                          THEN [m_debug_queue[i] EXCEPT !.value = (@ + 1) % U16]
                          ELSE m_debug_queue[i]

\* C13 (step part): an increment call leaves the cursor and the filter mode
\* as they are.
C13_IncrementFrame ==
    (\E k \in AllKeys : IncrementField(k)) =>
        UNCHANGED << m_current_index_debug_channel, m_selective_debug >>

\* C13: increment on a registered key replaces its value v by (v + 1) mod
\* 65536 and changes nothing else: size, slot, included flag, the other
\* slots, cursor and filter mode.
C13_IncrementRegistered == []C13_IncrementAddsOne /\ [][C13_IncrementFrame]_vars

\* a control message the decoder has no case for (debug.c:162, 165-200)
UnknownCommand(p) ==
    \/ p[1] # ANT_DEBUG_FILTER_COMMAND
    \/ p[2] \notin {ANT_DEBUG_SUB_COMMAND_FILTER_ADD,
                    ANT_DEBUG_SUB_COMMAND_FILTER_CLEAR}

\* C14: a received control message (page 0xF9) whose command byte is not the
\* filter command, or whose sub-command is neither add nor clear, changes
\* nothing: slots (keys, values, included flags), lookup table, size, head,
\* filter mode, cursor and fast byte stay as they are, whatever key bytes the
\* message carries.
C14_UnknownCommandNoOp ==
    [][\A p \in Payloads(AllKeys) :
          (UnknownCommand(p) /\ ad_decode_debug_command(p)) =>
             UNCHANGED << m_debug_queue, m_hash_lookup, m_queue_size, m_head,
                          m_selective_debug, m_current_index_debug_channel,
                          m_fast_debug_byte >>]_vars

\* C14 witness: a state in which every item the claim lists is away from its
\* initial value (a field included by the filter, the filter on, the cursor
\* advanced, the fast byte set), so that an unrecognised command that cleared
\* or reset any of them would show; the unrecognised commands are received in
\* this state like in every other.
C14_Witness ==
    /\ m_selective_debug
    /\ m_queue_size = PreFill + 1
    /\ m_debug_queue[PreFill].output
    /\ m_debug_queue[PreFill].value = U16 - 1
    /\ m_current_index_debug_channel > 0
    /\ m_fast_debug_byte # ANT_RESERVED_BYTE
    /\ \E p \in Payloads(AllKeys) : UnknownCommand(p) /\ ENABLED ad_decode_debug_command(p)

\* C15 (build part): a page built while the registry is empty holds the page
\* tag 0xF9, the current fast byte and six fill bytes 0xFF, and the build
\* leaves the cursor where it was, whether the filter is on or off.
C15_EmptyBuild ==
    (ad_update_tx /\ m_queue_size = 0) =>
        /\ m_tx_buffer'[0] = ANT_DEBUG_PAGE_MESSAGE
        /\ m_tx_buffer'[ANT_FAST_DEBUG_BYTE_INDEX] = m_fast_debug_byte
        /\ \A i \in ANT_PAGE_DEBUG_KEY0_INDEX .. 7 :
              m_tx_buffer'[i] = ANT_RESERVED_BYTE
        /\ m_current_index_debug_channel' = m_current_index_debug_channel
        /\ ~hung'

\* C15 (fast byte part): init leaves the fast byte at 0xFF, the value a page
\* shows when no fast byte has been set since.
C15_InitFastByte == ad_init => m_fast_debug_byte' = ANT_RESERVED_BYTE

\* C15: whenever the registry is empty, whatever the filter mode, a page
\* build produces byte 0 = 0xF9, byte 1 = the fast byte (0xFF if never set
\* since init) and bytes 2..7 = 0xFF, and leaves the cursor unchanged.
C15_EmptyRegistryPage == [][C15_EmptyBuild /\ C15_InitFastByte]_vars

\* C15 witness: the registry is empty, the filter is on, a fast byte has been
\* set, and the transmit buffer holds the page built from the empty registry.
C15_Witness ==
    /\ m_queue_size = 0
    /\ m_selective_debug
    /\ m_fast_debug_byte \in FastBytes
    /\ m_tx_buffer = [i \in 0 .. 7 |->
                        CASE i = 0 -> ANT_DEBUG_PAGE_MESSAGE
                          [] i = 1 -> m_fast_debug_byte
                          [] OTHER -> ANT_RESERVED_BYTE]

\* the least element of a non-empty set of slot numbers
MinSlot(S) == CHOOSE x \in S : \A y \in S : x <= y

\* the first eligible occupied slot met in slot order from slot c on, going
\* round from the last occupied slot to slot 0
NextEligible(c) ==
    IF c \in Eligible THEN c
    ELSE LET after == {i \in Eligible : i > c}
         IN  IF after # {} THEN MinSlot(after) ELSE MinSlot(Eligible)

\* C16: a page build that finds an eligible field writes, in both pair
\* positions, key and current value (low byte first) of occupied eligible
\* slots, taken in slot order from the persisted cursor, and leaves the cursor
\* one past the last slot it examined, wrapped modulo the size.
C16_PairsFromEligibleSlots ==
    [][(ad_update_tx /\ m_queue_size > 0 /\ Eligible # {}) =>
          LET first  == NextEligible(m_current_index_debug_channel % m_queue_size)
              second == NextEligible((first + 1) % m_queue_size)
          IN  /\ ~hung'
              /\ Pair(m_tx_buffer', 0) = FieldPair(first)
              /\ Pair(m_tx_buffer', 1) = FieldPair(second)
              /\ m_current_index_debug_channel' = (second + 1) % m_queue_size]_vars

\* C17: whenever the filter is on and the registry is not empty, at least one
\* occupied slot is included: no filter-add command (not one whose key bytes
\* are all 255 either) leads to 'filter on, fields registered, none eligible'.
C17_SelectiveHasEligible ==
    (m_selective_debug /\ m_queue_size > 0) =>
        \E i \in Slots : i < m_queue_size /\ m_debug_queue[i].output

\* C18: whenever the registry is not empty the cursor is below the size, so
\* that a page build reads occupied slots only; also after every slot of the
\* array has been handed out.
C18_CursorBelowSize ==
    m_queue_size > 0 => m_current_index_debug_channel < m_queue_size

\* C19 (state part): key 255 is never registered: no occupied slot holds
\* key 255 and the lookup entry of key 255 is the sentinel.
C19_ReservedKeyAbsent ==
    /\ \A i \in Slots :
          i < m_queue_size => m_debug_queue[i].index # ANT_DEBUG_FIELD_INVALID
    /\ m_hash_lookup[ANT_DEBUG_FIELD_INVALID] = ANT_DEBUG_FIELD_INVALID

\* C19 (step part): a filter-add command whose key bytes are all 255 allocates
\* no slot and changes no included flag.
C19_FilterAddSkipsReserved ==
    (\E p \in Payloads(AllKeys) :
        /\ p[1] = ANT_DEBUG_FILTER_COMMAND
        /\ p[2] = ANT_DEBUG_SUB_COMMAND_FILTER_ADD
        /\ NamedKeys(p) = {}
        /\ ad_decode_debug_command(p)) =>
            UNCHANGED << m_debug_queue, m_hash_lookup, m_queue_size, m_head >>

\* C19: after any sequence of set, increment and filter commands with
\* arbitrary one-byte keys, key 255 is not registered, and filter-add skips
\* every key byte equal to 255.
C19_ReservedKeyNeverRegistered ==
    []C19_ReservedKeyAbsent /\ [][C19_FilterAddSkipsReserved]_vars

\* the positions of a filter-add command at which a key not registered so
\* far is named for the first time, and the number of such positions before j
NewKeyPositions(p) ==
    {j \in 3 .. 7 :
        /\ p[j] # ANT_DEBUG_FIELD_INVALID
        /\ ~Registered(p[j])
        /\ \A i \in 3 .. (j - 1) : p[i] # p[j]}
NewKeyRank(p, j) == Cardinality({i \in NewKeyPositions(p) : i < j})

\* what the filter-add command p is to leave: each new key in the next free
\* slot with the placeholder 0xFFFF, every named key's slot included, the
\* rest as before
FilterAddEffect(p) ==
    LET new == NewKeyPositions(p)
    IN  /\ m_selective_debug'
        /\ m_current_index_debug_channel' = m_current_index_debug_channel
        /\ m_queue_size' = (m_queue_size + Cardinality(new)) % U8
        /\ m_head' = (m_head + Cardinality(new)) % U8
        /\ \A k \in Bytes :
              m_hash_lookup'[k] =
                  IF \E j \in new : p[j] = k
                  THEN m_head + NewKeyRank(p, CHOOSE j \in new : p[j] = k)
                  ELSE m_hash_lookup[k]
        /\ \A i \in Slots :
              m_debug_queue'[i] =
                  IF \E j \in new : i = m_head + NewKeyRank(p, j)
                  THEN [index  |-> p[CHOOSE j \in new : i = m_head + NewKeyRank(p, j)],
                        value  |-> U16 - 1,
                        output |-> TRUE]
                  ELSE IF i < m_queue_size /\ m_debug_queue[i].index \in NamedKeys(p)
                  THEN [m_debug_queue[i] EXCEPT !.output = TRUE]
                  ELSE m_debug_queue[i]

\* C20: a filter-add command switches the filter on and handles its key bytes
\* other than 255 in message order: an unknown key is registered with value
\* 0xFFFF in the next free slot, every named key's slot becomes included, a
\* registered key keeps value and slot, and the cursor and the included flags
\* of the keys not named stay as they are.
C20_FilterAddEffect ==
    [][\A p \in Payloads(AllKeys) :
          (/\ p[1] = ANT_DEBUG_FILTER_COMMAND
           /\ p[2] = ANT_DEBUG_SUB_COMMAND_FILTER_ADD
           /\ ad_decode_debug_command(p)) => FilterAddEffect(p)]_vars
====
